---------------------------- MODULE Spec2Model ----------------------------
(***************************************************************************)
(* Model of user_service/main.py: the five endpoints of the user service   *)
(* (register_user, login_user, get_all_users, get_user, delete_user) run   *)
(* by concurrent request threads against one SQLite table `users`.         *)
(*                                                                         *)
(* Every endpoint opens its own connection (get_db), executes its SQL      *)
(* statements one store step at a time and closes the connection in its    *)
(* finally block.  One action of the model is one store step together with *)
(* the Python code that follows it up to the next store step or the exit   *)
(* of the handler.  SQLite serialises writers: the connection that has     *)
(* executed INSERT/DELETE holds the write lock until commit or close.      *)
(***************************************************************************)
EXTENDS Integers, Sequences, FiniteSets, TLC

\* ------------------------------------------------------------------ bounds
MaxId == 2          \* number of rowids the AUTOINCREMENT counter may hand out

Procs == {"p1", "p2"}                       \* concurrent request threads
Usernames == {"alice", "bob"}
Emails == {"a@x.com", "b@y.com"}
Passwords == {"pw1", "pw2"}
UserIds == 1 .. (MaxId + 1)                 \* path parameter user_id

NoArgs == [username |-> "", email |-> "", password |-> "", user_id |-> 0]
\* Request bodies of POST /users/register (UserCreate).
RegisterRequests ==
    {[NoArgs EXCEPT !.username = u, !.email = e, !.password = pw] :
        u \in Usernames, e \in Emails, pw \in Passwords}
\* Request bodies of POST /users/login (UserLogin).
LoginRequests ==
    {[NoArgs EXCEPT !.username = u, !.password = pw] :
        u \in Usernames, pw \in Passwords}
\* GET and DELETE /users/{user_id}.
IdRequests == {[NoArgs EXCEPT !.user_id = id] : id \in UserIds}
ClockReadings == {0}                        \* readings of datetime.utcnow()
StorageErrors == {"disk I/O error"}         \* sqlite3.OperationalError messages
                                            \* raised by a failing store step

\* --------------------------------------------------------- pure functions
\* hash_password: hashlib.sha256(password.encode()).hexdigest(), tabulated
\* on the modelled passwords.
hash_password(password) ==
    CASE password = "pw1" ->
           "c592df4a86933b92addc9842402ddf198c638ea9be58916ee6e3734e1e3152f8"
      [] password = "pw2" ->
           "93915a0a4bf8f634cb1856494dd4304472ad46b9827f541f76b6761c49cc55b0"

\* datetime.isoformat() of the clock reading t (seconds past a fixed instant).
isoformat(t) == "2024-01-01T00:00:0" \o ToString(t)

\* ------------------------------------------------------------ table `users`
\* UNIQUE on username (CREATE TABLE line 30).
UniqueUsernameDropped(rows, username) == FALSE
UsernameTaken(rows, username) == \E r \in rows : r.username = username

\* UNIQUE on email (CREATE TABLE line 31).
UniqueEmailDropped(rows, email) == FALSE
EmailTaken(rows, email) == \E r \in rows : r.email = email

\* Message of the sqlite3.IntegrityError the INSERT raises ("" when the
\* constraints admit the row); SQLite reports the email index first.
ConstraintFailure(rows, username, email) ==
    IF EmailTaken(rows, email) THEN "UNIQUE constraint failed: users.email"
    ELSE IF UsernameTaken(rows, username)
         THEN "UNIQUE constraint failed: users.username"
         ELSE ""

\* id INTEGER PRIMARY KEY: without AUTOINCREMENT the rowid is max(rowid)+1.
MaxRowid(rows) ==
    IF rows = {} THEN 0 ELSE CHOOSE m \in {r.id : r \in rows} :
                                 \A r \in rows : r.id <= m
NextRowidReusing(rows, sequence) == MaxRowid(rows) + 1
\* AUTOINCREMENT: one more than the largest rowid ever committed
\* (sqlite_sequence), never smaller than the largest rowid in the table.
NextRowid(rows, sequence) ==
    (IF MaxRowid(rows) > sequence THEN MaxRowid(rows) ELSE sequence) + 1

\* Rows in rowid order: the order of a table scan.
RECURSIVE ScanOrder(_)
ScanOrder(rows) ==
    IF rows = {} THEN <<>>
    ELSE LET first == CHOOSE r \in rows : \A s \in rows : r.id <= s.id
         IN  <<first>> \o ScanOrder(rows \ {first})

\* "SELECT id FROM users WHERE username = ? OR email = ?" (line 97)
SelectByUsernameOnly(rows, username, email) ==
    {r \in rows : r.username = username}
SelectByUsernameOrEmail(rows, username, email) ==
    {r \in rows : r.username = username \/ r.email = email}

\* "SELECT id, username, email FROM users WHERE username = ? AND
\*  password_hash = ?" (line 150)
SelectByCredentialIgnoringHash(rows, username, password_hash) ==
    {r \in rows : r.username = username}
SelectByCredential(rows, username, password_hash) ==
    {r \in rows : r.username = username /\ r.password_hash = password_hash}

\* "... FROM users WHERE id = ?" (lines 114, 210, 238)
SelectByIdNoWhere(rows, user_id) == rows
SelectById(rows, user_id) == {r \in rows : r.id = user_id}

\* The dict built from a row of "SELECT id, username, email, created_at"
\* (lines 117-122, 186-191, 216-221).
UserViewAllColumns(row) == row
UserView(row) ==
    [id |-> row.id, username |-> row.username, email |-> row.email,
     created_at |-> row.created_at]

\* The "user" dict of the login payload (lines 160-164).
LoginView(row) ==
    [id |-> row.id, username |-> row.username, email |-> row.email]

\* get_all_users: one dict per row of fetchall() (lines 182-193).
RECURSIVE ViewsOf(_)
ViewsOf(rowSeq) ==
    IF rowSeq = <<>> THEN <<>>
    ELSE <<UserView(Head(rowSeq))>> \o ViewsOf(Tail(rowSeq))
ListViewsFirstOnly(rows) ==
    IF rows = {} THEN <<>> ELSE <<UserView(Head(ScanOrder(rows)))>>
ListViews(rows) == ViewsOf(ScanOrder(rows))

\* ------------------------------------------------------------------- state
VARIABLES
    users,      \* committed rows of table users
    seq,        \* sqlite_sequence: largest rowid ever committed
    pc,         \* pc[p]: the store step thread p executes next, or "idle"
    conn,       \* conn[p]: TRUE while the connection opened by get_db is open
    args,       \* request of the call in progress
    local,      \* password_hash, created_at, user_id (cursor.lastrowid)
    txn,        \* uncommitted writes of p's connection
    last,       \* outcome (response or raised exception) of the call that
                \* has just ended, until the HTTP layer has sent it
    \* history variables
    created,    \* ids of the rows committed by an INSERT, in commit order
    issued,     \* ids returned by a successful register_user
    regOK,      \* accounts returned by a successful register_user and not
                \* deleted since
    deletedOK,  \* ids for which delete_user has returned success
    gone,       \* the row removed by the latest delete_user that ran alone,
                \* until a call goes on to write other than a register_user
                \* with its username and email running alone
    effect,     \* ids the call in progress of p has committed or removed
    solo        \* table at the start of p's call while no other call runs

vars == <<users, seq, pc, conn, args, local, txn, last,
          created, issued, regOK, deletedOK, gone,
                   effect, solo>>

NoLocal == [password_hash |-> "", created_at |-> "", user_id |-> 0]
NoTxn == [ins |-> {}, del |-> {}]
NoResult == [proc |-> "", op |-> "none", req |-> NoArgs, solo |-> FALSE,
             status |-> 0, raised |-> "none", exc |-> "none", detail |-> "",
             rows |-> <<>>, added |-> {}, removed |-> {}]
NoEffect == [added |-> {}, removed |-> {}]
NotSolo == [on |-> FALSE, before |-> {}]

RegisterSteps == {"reg_insert", "reg_commit", "reg_readback"}
DeleteSteps == {"del_delete", "del_commit"}

Init ==
    /\ users = {}
    /\ seq = 0
    /\ pc = [p \in Procs |-> "idle"]
    /\ conn = [p \in Procs |-> FALSE]
    /\ args = [p \in Procs |-> NoArgs]
    /\ local = [p \in Procs |-> NoLocal]
    /\ txn = [p \in Procs |-> NoTxn]
    /\ last = NoResult
    /\ created = <<>>
    /\ issued = {}
    /\ regOK = {}
    /\ deletedOK = {}
    /\ gone = {}
    /\ effect = [p \in Procs |-> NoEffect]
    /\ solo = [p \in Procs |-> NotSolo]

\* Another connection holds the write lock (an uncommitted INSERT/DELETE).
WriteLocked(p) == \E q \in Procs \ {p} : txn[q] # NoTxn

OthersIdle(p) == \A q \in Procs \ {p} : pc[q] = "idle"

\* ------------------------------------------------ entering/leaving a handler
\* get_db(): sqlite3.connect opens the connection of the calling thread.
Opened(c, p) == [c EXCEPT ![p] = TRUE]

\* A thread takes a request, opens its connection (get_db, conn.cursor) and
\* executes its first statement in one step: opening the connection reads and
\* writes nothing another thread can see.  Enter is the call whose first
\* statement lets the handler go on to the store step `step`.
Enter(p, step, a) ==
    /\ pc[p] = "idle"
    /\ pc' = [pc EXCEPT ![p] = step]
    /\ conn' = Opened(conn, p)
    /\ args' = [args EXCEPT ![p] = a]
    /\ last' = NoResult
    /\ solo' = [q \in Procs |->
                  IF q = p /\ OthersIdle(p)
                  THEN [on |-> TRUE, before |-> users] ELSE NotSolo]
    /\ gone' = IF OthersIdle(p) /\ step = "reg_insert"
               THEN {r \in gone : r.username = a.username /\ r.email = a.email}
               ELSE {}

\* The connection is left open when the handler is left.
CloseSkipped(c, p) == c

\* finally: conn.close().
Closed(c, p) == [c EXCEPT ![p] = FALSE]

\* The handler is left with outcome res: the finally block closes the
\* connection, which discards an uncommitted transaction.  The outcome is
\* recorded with the request a, whether the call ran alone, and the ids the
\* call has committed (added) or removed.
Exit(p, a, alone, res, eff) ==
    /\ pc' = [pc EXCEPT ![p] = "idle"]
    /\ conn' = Closed(Opened(conn, p), p)
    /\ txn' = [txn EXCEPT ![p] = NoTxn]
    /\ args' = [args EXCEPT ![p] = NoArgs]
    /\ local' = [local EXCEPT ![p] = NoLocal]
    /\ last' = [proc |-> p, op |-> res.op, req |-> a, solo |-> alone,
                status |-> res.status, raised |-> res.raised,
                exc |-> res.exc, detail |-> res.detail, rows |-> res.rows,
                added |-> eff.added, removed |-> eff.removed]
    /\ effect' = [effect EXCEPT ![p] = NoEffect]
    /\ solo' = [q \in Procs |->
                  IF q = p \/ pc[p] = "idle" THEN NotSolo ELSE solo[q]]

\* The handler is left at a later store step of the call in progress.
Leave(p, res) ==
    /\ pc[p] # "idle"
    /\ Exit(p, args[p], solo[p].on, res, effect[p])

\* The handler is entered and left at its first statement.
Whole(p, a, res) ==
    /\ pc[p] = "idle"
    /\ Exit(p, a, OthersIdle(p), res, NoEffect)

Returned(op, status, detail, rows) ==
    [op |-> op, status |-> status, raised |-> "none", exc |-> "none",
     detail |-> detail, rows |-> rows]

\* raise HTTPException(status_code, detail) out of the handler; exc is the
\* exception the handler converted ("HTTPException" when it raised it itself).
HttpError(op, status, exc, detail) ==
    [op |-> op, status |-> status, raised |-> "HTTPException", exc |-> exc,
     detail |-> detail, rows |-> <<>>]

\* An exception no except clause of the handler catches: it leaves the
\* handler as it is and the framework answers 500 "Internal Server Error".
Uncaught(op, exc) ==
    [op |-> op, status |-> 500, raised |-> exc, exc |-> exc,
     detail |-> "Internal Server Error", rows |-> <<>>]

\* ------------------------------------------------------------ register_user
\* lines 92-100: the pre-check finds a row, HTTPException(400) is re-raised
\* by `except HTTPException: raise`.
RegCheckDuplicate(p) ==
    /\ last = NoResult
    /\ \E a \in RegisterRequests :
          /\ SelectByUsernameOrEmail(users, a.username, a.email) # {}
          /\ Whole(p, a, HttpError("register", 400, "HTTPException",
                                   "Username or email already exists"))
    /\ UNCHANGED <<users, seq, created, issued, regOK, deletedOK,
                   gone>>

\* lines 92-104: the pre-check finds nothing; hash and timestamp are computed.
RegCheckPass(p) ==
    /\ last = NoResult
    /\ seq < MaxId
    /\ \E a \in RegisterRequests, t \in ClockReadings :
          /\ SelectByUsernameOrEmail(users, a.username, a.email) = {}
          /\ Enter(p, "reg_insert", a)
          /\ local' = [local EXCEPT ![p] =
                         [password_hash |-> hash_password(a.password),
                          created_at |-> isoformat(t), user_id |-> 0]]
    /\ UNCHANGED <<users, seq, txn, effect,
                   created, issued, regOK, deletedOK>>

\* lines 106-109, 126-127: another connection holds the write lock until the
\* busy timeout expires; sqlite3.OperationalError becomes HTTPException(500,
\* detail=str(e)).
RegInsertLocked(p) ==
    /\ last = NoResult
    /\ pc[p] = "reg_insert"
    /\ WriteLocked(p)
    /\ Leave(p, HttpError("register", 500, "OperationalError",
                          "database is locked"))
    /\ UNCHANGED <<users, seq, created, issued, regOK, deletedOK,
                   gone>>

\* lines 106-109, 126-127: a UNIQUE constraint rejects the row;
\* sqlite3.IntegrityError becomes HTTPException(500, detail=str(e)).
RegInsertConflict(p) ==
    /\ last = NoResult
    /\ pc[p] = "reg_insert"
    /\ ~WriteLocked(p)
    /\ ConstraintFailure(users, args[p].username, args[p].email) # ""
    /\ Leave(p, HttpError("register", 500, "IntegrityError",
                 ConstraintFailure(users, args[p].username, args[p].email)))
    /\ UNCHANGED <<users, seq, created, issued, regOK, deletedOK,
                   gone>>

\* lines 106-109: the INSERT is accepted; the row is pending in p's
\* transaction and cursor.lastrowid is its rowid.
RegInsert(p) ==
    /\ last = NoResult
    /\ pc[p] = "reg_insert"
    /\ ~WriteLocked(p)
    /\ ConstraintFailure(users, args[p].username, args[p].email) = ""
    /\ NextRowid(users, seq) <= MaxId
    /\ LET id == NextRowid(users, seq)
       IN  /\ txn' = [txn EXCEPT ![p].ins =
                        {[id |-> id, username |-> args[p].username,
                          email |-> args[p].email,
                          password_hash |-> local[p].password_hash,
                          created_at |-> local[p].created_at]}]
           /\ local' = [local EXCEPT ![p].user_id = id]
    /\ pc' = [pc EXCEPT ![p] = "reg_commit"]
    /\ last' = NoResult
    /\ UNCHANGED <<users, seq, conn, args,
                   created, issued, regOK, deletedOK, gone,
                   effect, solo>>

\* line 110: conn.commit()
RegCommit(p) ==
    /\ last = NoResult
    /\ pc[p] = "reg_commit"
    /\ users' = users \cup txn[p].ins
    /\ seq' = (IF local[p].user_id > seq THEN local[p].user_id ELSE seq)
    /\ created' = Append(created, local[p].user_id)
    /\ effect' = [effect EXCEPT ![p].added = {r.id : r \in txn[p].ins}]
    /\ txn' = [txn EXCEPT ![p] = NoTxn]
    /\ pc' = [pc EXCEPT ![p] = "reg_readback"]
    /\ last' = NoResult
    /\ UNCHANGED <<conn, args, local, issued, regOK, deletedOK, gone,
                   solo>>

\* lines 113-122: the created row is read back and returned (status 201).
RegReadBack(p) ==
    /\ last = NoResult
    /\ pc[p] = "reg_readback"
    /\ SelectById(users, local[p].user_id) # {}
    /\ LET row == CHOOSE r \in SelectById(users, local[p].user_id) : TRUE
       IN  /\ Leave(p, Returned("register", 201, "", <<UserView(row)>>))
           /\ issued' = issued \cup {row.id}
           /\ regOK' = regOK \cup {[id |-> row.id, username |-> row.username,
                                    email |-> row.email]}
    /\ UNCHANGED <<users, seq, created, deletedOK,
                   gone>>

\* lines 114-118, 126-127: the row is gone, fetchone() is None and row['id']
\* raises TypeError, which becomes HTTPException(500, detail=str(e)).
RegReadBackMissing(p) ==
    /\ last = NoResult
    /\ pc[p] = "reg_readback"
    /\ SelectById(users, local[p].user_id) = {}
    /\ Leave(p, HttpError("register", 500, "TypeError",
                          "'NoneType' object is not subscriptable"))
    /\ UNCHANGED <<users, seq, created, issued, regOK, deletedOK,
                   gone>>

\* lines 126-127: a store step (the pre-check, the INSERT, the commit or the
\* read-back) fails with a storage error, which becomes HTTPException(500,
\* detail=str(e)).
RegStorageError(p) ==
    /\ last = NoResult
    /\ \E msg \in StorageErrors :
          \/ \E a \in RegisterRequests :
                Whole(p, a, HttpError("register", 500, "OperationalError", msg))
          \/ /\ pc[p] \in RegisterSteps
             /\ Leave(p, HttpError("register", 500, "OperationalError", msg))
    /\ UNCHANGED <<users, seq, created, issued, regOK, deletedOK,
                   gone>>

\* --------------------------------------------------------------- login_user
LoginRows(a) ==
    SelectByCredential(users, a.username, hash_password(a.password))

\* lines 143-165: a row matches; fetchone() is the first one.
LoginOK(p) ==
    /\ last = NoResult
    /\ \E a \in LoginRequests :
          /\ LoginRows(a) # {}
          /\ Whole(p, a, Returned("login", 200, "Login successful",
                           <<LoginView(Head(ScanOrder(LoginRows(a))))>>))
    /\ UNCHANGED <<users, seq, created, issued, regOK, deletedOK,
                   gone>>

\* A refused login removes the account that has the username.
LoginInvalidLockingOut(p) ==
    /\ last = NoResult
    /\ \E a \in LoginRequests :
          /\ LoginRows(a) = {}
          /\ users' = {r \in users : r.username # a.username}
          /\ Whole(p, a, HttpError("login", 401, "HTTPException",
                                   "Invalid credentials"))
    /\ UNCHANGED <<seq, created, issued, regOK, deletedOK, gone>>

\* lines 143-156: no row matches, HTTPException(401).
LoginInvalid(p) ==
    /\ last = NoResult
    /\ \E a \in LoginRequests :
          /\ LoginRows(a) = {}
          /\ Whole(p, a, HttpError("login", 401, "HTTPException",
                                   "Invalid credentials"))
    /\ UNCHANGED <<users, seq, created, issued, regOK, deletedOK,
                   gone>>

\* ------------------------------------------------------------ get_all_users
\* lines 178-196
ListSelect(p) ==
    /\ last = NoResult
    /\ Whole(p, NoArgs, Returned("list", 200, "", ListViews(users)))
    /\ UNCHANGED <<users, seq, created, issued, regOK, deletedOK,
                   gone>>

\* ----------------------------------------------------------------- get_user
\* lines 206-221
GetFound(p) ==
    /\ last = NoResult
    /\ \E a \in IdRequests :
          /\ SelectById(users, a.user_id) # {}
          /\ LET row == CHOOSE r \in SelectById(users, a.user_id) : TRUE
             IN  Whole(p, a, Returned("get", 200, "", <<UserView(row)>>))
    /\ UNCHANGED <<users, seq, created, issued, regOK, deletedOK,
                   gone>>

\* lines 206-214
GetMissing(p) ==
    /\ last = NoResult
    /\ \E a \in IdRequests :
          /\ SelectById(users, a.user_id) = {}
          /\ Whole(p, a, HttpError("get", 404, "HTTPException",
                                   "User not found"))
    /\ UNCHANGED <<users, seq, created, issued, regOK, deletedOK,
                   gone>>

\* -------------------------------------------------------------- delete_user
\* lines 234-240
DelCheckMissing(p) ==
    /\ last = NoResult
    /\ \E a \in IdRequests :
          /\ SelectById(users, a.user_id) = {}
          /\ Whole(p, a, HttpError("delete", 404, "HTTPException",
                                   "User not found"))
    /\ UNCHANGED <<users, seq, created, issued, regOK, deletedOK,
                   gone>>

\* lines 234-239: the row exists, the handler goes on to the DELETE.
DelCheckFound(p) ==
    /\ last = NoResult
    /\ \E a \in IdRequests :
          /\ SelectById(users, a.user_id) # {}
          /\ Enter(p, "del_delete", a)
    /\ UNCHANGED <<users, seq, local, txn, effect,
                   created, issued, regOK, deletedOK>>

\* line 242: another connection holds the write lock until the busy timeout
\* expires; sqlite3.OperationalError leaves the handler uncaught.
DelDeleteLocked(p) ==
    /\ last = NoResult
    /\ pc[p] = "del_delete"
    /\ WriteLocked(p)
    /\ Leave(p, Uncaught("delete", "OperationalError"))
    /\ UNCHANGED <<users, seq, created, issued, regOK, deletedOK,
                   gone>>

\* line 242: the DELETE is pending in p's transaction (it removes the rows
\* with that id, possibly none).
DelDelete(p) ==
    /\ last = NoResult
    /\ pc[p] = "del_delete"
    /\ ~WriteLocked(p)
    /\ txn' = [txn EXCEPT ![p].del = {args[p].user_id}]
    /\ pc' = [pc EXCEPT ![p] = "del_commit"]
    /\ last' = NoResult
    /\ UNCHANGED <<users, seq, conn, args, local,
                   created, issued, regOK, deletedOK, gone,
                   effect, solo>>

\* The rows are kept and their email is blanked instead of being removed.
DeleteRowsBlanking(rows, ids) ==
    {IF r.id \in ids THEN [r EXCEPT !.email = ""] ELSE r : r \in rows}

\* line 242: DELETE FROM users WHERE id = ?, for the ids of a transaction.
DeleteRows(rows, ids) == {r \in rows : r.id \notin ids}

\* lines 243-245: conn.commit() and the confirmation message.
DelCommit(p) ==
    /\ last = NoResult
    /\ pc[p] = "del_commit"
    /\ users' = DeleteRows(users, txn[p].del)
    /\ deletedOK' = deletedOK \cup {args[p].user_id}
    /\ gone' = IF OthersIdle(p)
               THEN {r \in users : r.id \in txn[p].del} ELSE {}
    /\ regOK' = {a \in regOK : a.id \notin txn[p].del}
    /\ Exit(p, args[p], solo[p].on,
            Returned("delete", 200,
                     "User " \o ToString(args[p].user_id)
                             \o " deleted successfully", <<>>),
            [added |-> {},
             removed |-> {r.id : r \in {s \in users : s.id \in txn[p].del}}])
    /\ UNCHANGED <<seq, created, issued>>

\* ------------------------------------------------------------ storage errors
\* login_user, get_all_users, get_user and delete_user have no except clause:
\* a storage error at a store step leaves the handler uncaught (after the
\* finally block has closed the connection).
StorageError(p) ==
    /\ last = NoResult
    /\ \/ \E a \in LoginRequests :
             Whole(p, a, Uncaught("login", "OperationalError"))
       \/ Whole(p, NoArgs, Uncaught("list", "OperationalError"))
       \/ \E a \in IdRequests, op \in {"get", "delete"} :
             Whole(p, a, Uncaught(op, "OperationalError"))
       \/ /\ pc[p] \in DeleteSteps
          /\ Leave(p, Uncaught("delete", "OperationalError"))
    /\ UNCHANGED <<users, seq, created, issued, regOK, deletedOK,
                   gone>>

\* The HTTP layer sends the outcome of the call that has just ended; it
\* touches nothing of the store and of the other threads.
Respond ==
    /\ last # NoResult
    /\ last' = NoResult
    /\ UNCHANGED <<users, seq, pc, conn, args, local, txn,
                   created, issued, regOK, deletedOK, gone,
                   effect, solo>>

\* -------------------------------------------------------------- specification
Next ==
    \/ Respond
    \/ \E p \in Procs :
          \/ RegCheckDuplicate(p)
          \/ RegCheckPass(p)
          \/ RegInsertLocked(p)
          \/ RegInsertConflict(p)
          \/ RegInsert(p)
          \/ RegCommit(p)
          \/ RegReadBack(p)
          \/ RegReadBackMissing(p)
          \/ RegStorageError(p)
          \/ LoginOK(p)
          \/ LoginInvalid(p)
          \/ ListSelect(p)
          \/ GetFound(p)
          \/ GetMissing(p)
          \/ DelCheckMissing(p)
          \/ DelCheckFound(p)
          \/ DelDeleteLocked(p)
          \/ DelDelete(p)
          \/ DelCommit(p)
          \/ StorageError(p)

Spec == Init /\ [][Next]_vars

TypeOK ==
    /\ seq \in 0 .. MaxId
    /\ \A p \in Procs : pc[p] \in RegisterSteps \cup DeleteSteps \cup {"idle"}
    /\ \A p \in Procs : conn[p] <=> pc[p] # "idle"
    /\ \A r \in users : r.id \in 1 .. MaxId

\* ==========================================================================
\* Properties
\* ==========================================================================

\* C1: in every reachable state no two live accounts share a username and no
\* two live accounts share an email.
UniqueAccounts ==
    \A r1 \in users, r2 \in users :
       (r1.username = r2.username \/ r1.email = r2.email) => r1 = r2

\* Two accounts are live and the store has just rejected a racing INSERT.
UniqueAccountsWitness ==
    /\ Cardinality(users) = 2
    /\ last.op = "register"
    /\ last.exc = "IntegrityError"

\* C2: of the register_user calls that have returned success and whose
\* account has not been deleted since, no two carry the same username and no
\* two carry the same email.
AtMostOneRegisterSucceeds ==
    \A a \in regOK, b \in regOK :
       (a.username = b.username \/ a.email = b.email) => a = b

\* A register_user that raced a successful one with the same username has
\* passed the pre-check and has just been turned down at the INSERT.
AtMostOneRegisterSucceedsWitness ==
    /\ last.op = "register"
    /\ last.exc = "IntegrityError"
    /\ \E a \in regOK : a.username = last.req.username

\* C3: a register_user call during which no other call is in progress and
\* no storage error strikes ends with HTTPException 400 "Username or email
\* already exists" when a live account has its username or its email, the
\* table being as before the call, and otherwise returns 201 with the table
\* grown by exactly one row, which has that username and email; every call
\* ending with that 400 has committed nothing.
RegisterAlone ==
    [][(last' # last /\ last'.op = "register") =>
         LET p == last'.proc
             a == last'.req
             before == IF pc[p] = "idle" THEN users ELSE solo[p].before
         IN  /\ (last'.solo /\ last'.exc # "OperationalError")
                 => IF \E r \in before :
                          r.username = a.username \/ r.email = a.email
                    THEN /\ last'.status = 400
                         /\ last'.raised = "HTTPException"
                         /\ last'.detail = "Username or email already exists"
                         /\ users' = before
                    ELSE /\ last'.status = 201
                         /\ last'.raised = "none"
                         /\ before \subseteq users'
                         /\ \E r \in users' \ before :
                               /\ users' \ before = {r}
                               /\ r.username = a.username
                               /\ r.email = a.email
             /\ last'.status = 400 => (users' = users /\ last'.added = {})
      ]_vars

\* A call that ran alone has just been rejected for its email only.
RegisterAloneWitness ==
    /\ last.op = "register"
    /\ last.solo
    /\ last.status = 400
    /\ \E r \in users : r.email = last.req.email
    /\ \A r \in users : r.username # last.req.username

\* C4: a register_user whose INSERT the UNIQUE constraint rejects ends with
\* the outcome of a pre-check rejection, HTTPException 400.
ConflictIsDuplicateAccount ==
    (last.op = "register" /\ last.exc = "IntegrityError")
       => (last.status = 400 /\ last.detail = "Username or email already exists")

\* C5: login_user, when its SELECT completes, returns success if and only if
\* a live account has the request's username and a password_hash equal to
\* hash_password of the request's password, and then with the id of such an
\* account; otherwise it ends with HTTPException 401 "Invalid credentials".
LoginIffCredentialMatches ==
    (last.op = "login" /\ last.exc # "OperationalError") =>
       LET match == {r \in users :
                       /\ r.username = last.req.username
                       /\ r.password_hash = hash_password(last.req.password)}
       IN  IF match # {}
           THEN /\ last.status = 200
                /\ last.raised = "none"
                /\ Len(last.rows) = 1
                /\ \E r \in match :
                      /\ last.rows[1].id = r.id
                      /\ last.rows[1].username = r.username
           ELSE /\ last.status = 401
                /\ last.raised = "HTTPException"
                /\ last.detail = "Invalid credentials"

\* A login is refused with the wrong password of a live account, an account
\* registered after another one was deleted.
LoginIffCredentialMatchesWitness ==
    /\ last.op = "login"
    /\ last.status = 401
    /\ deletedOK # {}
    /\ \E r \in users : r.username = last.req.username

\* C6: once delete_user(id) has returned success, a get_user(id) whose SELECT
\* completes ends with HTTPException 404 "User not found".
DeletedStaysGone ==
    (last.op = "get" /\ last.req.user_id \in deletedOK
       /\ last.exc # "OperationalError")
       => (last.status = 404 /\ last.detail = "User not found")

\* get_user of a deleted id is refused while an account registered after the
\* deletion is live.
DeletedStaysGoneWitness ==
    /\ last.op = "get"
    /\ last.status = 404
    /\ last.req.user_id \in deletedOK
    /\ \E r \in users : r.id > last.req.user_id

Inserted == {created[i] : i \in DOMAIN created}

\* C7 as stated: for an id no register_user has returned, get_user and
\* delete_user whose statements complete end with 404 and leave the table
\* unchanged.
NeverReturnedIdNotFound ==
    [][(last = NoResult /\ last'.op \in {"get", "delete"}
          /\ last'.req.user_id \notin issued'
          /\ last'.exc # "OperationalError")
         => (last'.status = 404 /\ users' = users)]_vars

\* C7 amended: for an id no register_user has committed a row with, get_user
\* and delete_user whose statements complete end with HTTPException 404 and
\* leave the table unchanged.
NeverInsertedIdNotFound ==
    [][(last = NoResult /\ last'.op \in {"get", "delete"}
          /\ last'.req.user_id \notin Inserted
          /\ last'.exc # "OperationalError")
         => (/\ last'.status = 404
             /\ last'.detail = "User not found"
             /\ last'.removed = {}
             /\ users' = users)]_vars

\* delete_user of an id never inserted is refused while accounts are live.
NeverInsertedIdNotFoundWitness ==
    /\ last.op = "delete"
    /\ last.status = 404
    /\ last.req.user_id \notin Inserted
    /\ users # {}

\* The row with id x was committed before the row with id y.
CreatedBefore(x, y) ==
    \E i \in DOMAIN created, j \in DOMAIN created :
       i < j /\ created[i] = x /\ created[j] = y

\* C8: get_all_users, when its SELECT completes, returns the views (id,
\* username, email, created_at) of exactly the live accounts, each once, in
\* the order in which their rows were committed.
ListIsLiveInCreationOrder ==
    (last.op = "list" /\ last.exc # "OperationalError") =>
       /\ last.status = 200
       /\ Len(last.rows) = Cardinality(users)
       /\ {last.rows[i] : i \in DOMAIN last.rows}
             = {[id |-> r.id, username |-> r.username, email |-> r.email,
                 created_at |-> r.created_at] : r \in users}
       /\ \A i \in DOMAIN last.rows, j \in DOMAIN last.rows :
             i < j => CreatedBefore(last.rows[i].id, last.rows[j].id)

\* Two accounts are listed.
ListIsLiveInCreationOrderWitness ==
    /\ last.op = "list"
    /\ Len(last.rows) = 2

Secrets == Passwords \cup {hash_password(pw) : pw \in Passwords}

\* C9: no outcome of any operation carries a password_hash or password
\* field, and none of its values (the fields of the returned views, the
\* message or error detail) is a plaintext password or a password hash.
NoSecretInOutcome ==
    /\ last.detail \notin Secrets
    /\ \A i \in DOMAIN last.rows :
          /\ DOMAIN last.rows[i] \cap {"password_hash", "password"} = {}
          /\ \A f \in DOMAIN last.rows[i] \ {"id"} :
                last.rows[i][f] \notin Secrets

\* register_user has returned the view of the account it created.
NoSecretInOutcomeWitness ==
    /\ last.op = "register"
    /\ last.status = 201
    /\ Len(last.rows) = 1

\* C10: a call that ends in a failure (status 400, 401, 404 or 500) has
\* committed no row and removed no row.
FailureCommitsNothing ==
    (last.op # "none" /\ last.status >= 400)
       => (last.added = {} /\ last.removed = {})

\* C11: an outcome caused by a storage error (sqlite3.OperationalError at a
\* store step of any of the five operations) is raised by the operation
\* itself as the internal failure (HTTPException, status 500), and its detail
\* is not the message of the storage error.
StorageErrorIsGenericFailure ==
    last.exc = "OperationalError"
       => /\ last.raised = "HTTPException"
          /\ last.status = 500
          /\ last.detail \notin StorageErrors \cup {"database is locked"}

\* C12: from its creation until its deletion an account's id, username,
\* email, password_hash and created_at never change: in every step, a row
\* whose id is still in the table afterwards is in the table unchanged, so
\* the only transitions of an account are its creation and its deletion.
AccountImmutable ==
    [][\A r \in users :
          (\E s \in users' : s.id = r.id) => r \in users']_vars

\* Account 1 is live, unchanged, after account 2 was created and deleted.
AccountImmutableWitness ==
    /\ \E r \in users : r.id = 1
    /\ 2 \in deletedOK
    /\ \A r \in users : r.id # 2

\* C13: every operation closes the connection it opened before it returns,
\* on every exit path: the thread whose call has just ended, with whatever
\* outcome, has no open connection, and a thread with no call in progress
\* has none; so when no call is in progress no connection is open.
ConnectionClosedOnExit ==
    /\ last # NoResult => ~conn[last.proc]
    /\ \A p \in Procs : pc[p] = "idle" => ~conn[p]

\* delete_user of a live account was left by an uncaught storage error, and
\* no call is in progress.
ConnectionClosedOnExitWitness ==
    /\ last.op = "delete"
    /\ last.raised = "OperationalError"
    /\ \A p \in Procs : pc[p] = "idle"
    /\ \E r \in users : r.id = last.req.user_id

\* C14: every register_user call whose INSERT was committed, and which no
\* storage error interrupted, returns success (201) with the view of the
\* account it created, whatever other calls ran between its commit and its
\* read-back.
CommittedRegisterReturnsAccount ==
    (last.op = "register" /\ last.added # {} /\ last.exc # "OperationalError")
       => /\ last.status = 201
          /\ Len(last.rows) = 1
          /\ last.rows[1].id \in last.added
          /\ last.rows[1].username = last.req.username
          /\ last.rows[1].email = last.req.email

\* C15: for every account id at most one delete_user call returns success:
\* a delete_user call that returns success (200) is for an id for which no
\* earlier delete_user call has returned success.
DeleteSucceedsOnce ==
    [][(last = NoResult /\ last'.op = "delete" /\ last'.status = 200)
          => last'.req.user_id \notin deletedOK]_vars

\* C16: ids are never reused: a register_user call that returns success
\* returns an id that no earlier successful register_user call has returned,
\* deleted accounts included, and a row entering the table has an id no row
\* has ever been committed with, so an id goes from nonexistent to active to
\* deleted and never back.
IdsNeverReused ==
    [][/\ (last = NoResult /\ last'.op = "register" /\ last'.status = 201)
             => last'.rows[1].id \notin issued
       /\ \A r \in users' \ users : r.id \notin Inserted]_vars

\* register_user returns id 2 after account 1, the only other one there
\* was, has been deleted.
IdsNeverReusedWitness ==
    /\ last.op = "register"
    /\ last.status = 201
    /\ last.rows[1].id = 2
    /\ 1 \in issued
    /\ 1 \in deletedOK
    /\ \A r \in users : r.id = 2

\* C17: uniqueness binds live accounts only.  Once a delete_user has
\* succeeded, a register_user that runs alone, meets no storage error and
\* whose username and email no live account holds (those of a deleted
\* account included) returns 201 with a new account under an id that no
\* account, live or deleted, has had; and a login_user succeeds only when a
\* live account has its username and the hash of its password, so the
\* password of a deleted account logs in only if the account registered
\* after it has the same password.
ReuseAfterDelete ==
    [][(last' # last /\ deletedOK # {}) =>
         LET p == last'.proc
             a == last'.req
             before == IF pc[p] = "idle" THEN users ELSE solo[p].before
         IN  /\ (/\ last'.op = "register"
                 /\ last'.solo
                 /\ last'.exc # "OperationalError"
                 /\ \A r \in before :
                       r.username # a.username /\ r.email # a.email)
                  => /\ last'.status = 201
                     /\ Len(last'.rows) = 1
                     /\ last'.rows[1].username = a.username
                     /\ last'.rows[1].email = a.email
                     /\ last'.rows[1].id \notin deletedOK \cup issued
                     /\ \E r \in users' \ before :
                           /\ r.id = last'.rows[1].id
                           /\ r.username = a.username
                           /\ r.email = a.email
                           /\ r.password_hash = hash_password(a.password)
             /\ (last'.op = "login" /\ last'.status = 200)
                  => \E r \in users :
                        /\ r.username = a.username
                        /\ r.password_hash = hash_password(a.password)
      ]_vars

\* An account was deleted, its username and email were registered again
\* under another id with another password, and a login with the deleted
\* account's password has just been refused.
ReuseAfterDeleteWitness ==
    /\ last.op = "login"
    /\ last.status = 401
    /\ \E g \in gone, r \in users :
          /\ r.username = g.username
          /\ r.email = g.email
          /\ r.id # g.id
          /\ r.password_hash # g.password_hash
          /\ last.req.username = g.username
          /\ hash_password(last.req.password) = g.password_hash

\* C18: login_user, get_all_users and get_user never change the store:
\* whatever the outcome of such a call (success, 401, 404 or a storage
\* error), the table, with every column of every row, and sqlite_sequence,
\* which fixes the next id, are after the call what they were before it.
ReadsChangeNothing ==
    [][(last' # last /\ last'.op \in {"login", "list", "get"})
          => (users' = users /\ seq' = seq)]_vars

\* A login has just been refused for the username of a live account, which
\* is still there.
ReadsChangeNothingWitness ==
    /\ last.op = "login"
    /\ last.status = 401
    /\ deletedOK = {}
    /\ \E r \in users : r.username = last.req.username
    /\ Cardinality(users) = 2

=============================================================================
